---- MODULE Spec2Model ----
(***************************************************************************)
(* Environmental Impact Explorer (src/app.py): the unit conversions, the   *)
(* numeric input validation, the dataset loader, the percentile            *)
(* classification inside create_environmental_map and the "Make Plot"      *)
(* branch of main, as state machines.                                       *)
(*                                                                         *)
(* Floats.  A Python float is a record [k, h]: k is "num", "nan" or "inf"  *)
(* (+infinity; "ninf" is -infinity) and, for "num", h is the value in      *)
(* hundredths.  Dataset values and parsed inputs are whole numbers, so the *)
(* interpolated percentiles (a fraction r/100 between two of them) are     *)
(* exact in hundredths: the model computes in exact arithmetic where the   *)
(* code computes in binary floating point.                                 *)
(***************************************************************************)
EXTENDS Integers, Sequences, FiniteSets, TLC

\* file:    CountyLevelMetrics.mat on disk (read by load_data)
\* cache:   what @st.cache_data holds for load_data
\* widgets: the values of the page's selectboxes and text inputs
\* screen:  what the last run of the script put on the page
\* call:    the arguments of a call of one of the helper functions
\* ret:     what that call returned
VARIABLES file, cache, widgets, screen, call, ret

vars == <<file, cache, widgets, screen, call, ret>>

\* ---------------------------------------------------------------- bounds
\* Longest text handed to validate_numeric_input.
MaxLen == 3
\* Largest consumption value handed to the unit conversions.
MaxValue == 12
\* Most counties in a dataset handed to create_environmental_map.
MaxN == 4
\* Most rows of an array of the data file read by load_data.
MaxRows == 2

\* ---------------------------------------------------------------- floats
F(n) == [k |-> "num", h |-> 100 * n]
NaN == [k |-> "nan", h |-> 0]
Inf == [k |-> "inf", h |-> 0]
NInf == [k |-> "ninf", h |-> 0]

IsNaN(x) == x.k = "nan"
IsFinite(x) == x.k = "num"

\* IEEE 754 comparisons: every comparison with NaN is false.
FLt(x, y) ==
    /\ ~IsNaN(x)
    /\ ~IsNaN(y)
    /\ \/ x.k = "ninf" /\ y.k # "ninf"
       \/ x.k = "num" /\ y.k = "inf"
       \/ x.k = "num" /\ y.k = "num" /\ x.h < y.h

FEq(x, y) ==
    /\ ~IsNaN(x)
    /\ ~IsNaN(y)
    /\ x.k = y.k
    /\ x.k = "num" => x.h = y.h

FLe(x, y) == FLt(x, y) \/ FEq(x, y)
FGt(x, y) == FLt(y, x)

FNeg(x) ==
    CASE x.k = "num" -> [k |-> "num", h |-> 0 - x.h]
      [] x.k = "inf" -> NInf
      [] x.k = "ninf" -> Inf
      [] OTHER -> NaN

\* IEEE 754 addition: inf + (-inf) is NaN.
FAdd(x, y) ==
    CASE IsNaN(x) \/ IsNaN(y) -> NaN
      [] x.k = "num" /\ y.k = "num" -> [k |-> "num", h |-> x.h + y.h]
      [] x.k = "num" -> y
      [] y.k = "num" -> x
      [] x.k = y.k -> x
      [] OTHER -> NaN

FSub(x, y) == FAdd(x, FNeg(y))

\* x * (t / 100) for a weight 0 <= t <= 100: inf * 0 is NaN.
FScale(x, t) ==
    CASE IsNaN(x) -> NaN
      [] x.k = "num" -> [k |-> "num", h |-> (x.h * t) \div 100]
      [] t = 0 -> NaN
      [] OTHER -> x

\* ------------------------------------------------------- unit conversion
PowerUnits == {"kWh/yr", "kWh/mo", "kW", "MW"}
WaterUnits == {"L/yr", "L/mo", "L/s", "gpm", "gal/mo"}
\* Unit tags outside both tables.
OtherUnits == {"GW", "gal/yr", ""}

\* The literal 3.78541 (liters per US gallon) in units of 10^-5.
LitersPerGallonE5 == 378541

\* A conversion returns the product value * times[1] * ... * 10^(-5 * e5),
\* kept unevaluated; raised names the exception it ends with, "none" for a
\* normal return.
Product(value, times, e5) ==
    [raised |-> "none", value |-> value, times |-> times, e5 |-> e5]

\* The int literal 0 of "return 0".
Zero == Product(F(0), <<>>, 0)

convert_power_to_kwh_per_year(value, unit) ==
    IF unit = "kWh/yr" THEN Product(value, <<>>, 0)
    ELSE IF unit = "kWh/mo" THEN Product(value, <<12>>, 0)
    ELSE IF unit = "kW" THEN Product(value, <<8760>>, 0)
    ELSE IF unit = "MW" THEN Product(value, <<1000, 8760>>, 0)
    ELSE Zero

convert_water_to_liters_per_year(value, unit) ==
    IF unit = "L/yr" THEN Product(value, <<>>, 0)
    ELSE IF unit = "L/mo" THEN Product(value, <<12>>, 0)
    ELSE IF unit = "L/s" THEN Product(value, <<31536000>>, 0)
    ELSE IF unit = "gpm" THEN Product(value, <<525600, LitersPerGallonE5>>, 1)
    ELSE IF unit = "gal/mo" THEN Product(value, <<12, LitersPerGallonE5>>, 1)
    ELSE Zero

\* ------------------------------------------------------------ validation
\* A text is a sequence of one-character strings over this alphabet.
Chars == {" ", "-", "0", "3", "a", "n"}
DigitChars == {"0", "3"}

RECURSIVE LStrip(_)
LStrip(s) == IF s # <<>> /\ Head(s) = " " THEN LStrip(Tail(s)) ELSE s

RECURSIVE RStrip(_)
RStrip(s) ==
    IF s # <<>> /\ s[Len(s)] = " " THEN RStrip(SubSeq(s, 1, Len(s) - 1)) ELSE s

\* str.strip(): leading and trailing whitespace removed.
Strip(s) == RStrip(LStrip(s))

DigitValue(c) == IF c = "3" THEN 3 ELSE 0

RECURSIVE DecimalValue(_)
DecimalValue(s) ==
    IF s = <<>> THEN 0
    ELSE 10 * DecimalValue(SubSeq(s, 1, Len(s) - 1)) + DigitValue(s[Len(s)])

IsDigits(s) == s # <<>> /\ \A i \in 1..Len(s) : s[i] \in DigitChars

\* float(text) over the alphabet: surrounding whitespace is ignored, then an
\* optional sign, then decimal digits or "nan"; anything else raises
\* ValueError.  [ok |-> FALSE] stands for the ValueError.
ParseFloat(s) ==
    LET t == Strip(s)
        neg == t # <<>> /\ Head(t) = "-"
        body == IF neg THEN Tail(t) ELSE t
    IN  IF IsDigits(body)
        THEN [ok |-> TRUE,
              val |-> IF neg THEN F(0 - DecimalValue(body)) ELSE F(DecimalValue(body))]
        ELSE IF body = <<"n", "a", "n">> THEN [ok |-> TRUE, val |-> NaN]
        ELSE [ok |-> FALSE, val |-> F(0)]

MustBePositive == "must be a positive number"
MustBeValid == "must be a valid number"
NoError == "none"

IsNegative(x) == FLt(x, F(0))

\* validate_numeric_input: the returned pair and the st.error message, if any.
validate_numeric_input(value) ==
    IF Strip(value) = <<>>
    THEN [is_valid |-> FALSE, numeric_value |-> F(0), error |-> NoError]
    ELSE LET p == ParseFloat(value)
         IN  IF ~p.ok
             THEN [is_valid |-> FALSE, numeric_value |-> F(0), error |-> MustBeValid]
             ELSE IF IsNegative(p.val)
             THEN [is_valid |-> FALSE, numeric_value |-> F(0), error |-> MustBePositive]
             ELSE [is_valid |-> TRUE, numeric_value |-> p.val, error |-> NoError]

RECURSIVE SeqsUpTo(_, _)
SeqsUpTo(S, n) ==
    IF n = 0 THEN {<<>>}
    ELSE LET shorter == SeqsUpTo(S, n - 1)
         IN  shorter \cup {Append(s, x) : s \in {t \in shorter : Len(t) = n - 1}, x \in S}

Texts == SeqsUpTo(Chars, MaxLen)

\* --------------------------------------------------------- classification
Metrics == {"carbon footprint", "scope 1 & 2 water footprint",
            "water scarcity footprint"}

\* metric_map[metric_option]: the array of the selected metric.
metric_map(data, metric_option) ==
    IF metric_option = "carbon footprint" THEN data.EFkgkWh
    ELSE IF metric_option = "scope 1 & 2 water footprint" THEN data.EWIF
    ELSE data.AWAREUSCF

\* str(int(fips_code)): the decimal digits of a non-negative code.
RECURSIVE Str(_)
Str(n) == IF n < 10 THEN <<n>> ELSE Append(Str(n \div 10), n % 10)

\* str.zfill(width): zeros on the left up to the width, never truncating.
RECURSIVE ZFill(_, _)
ZFill(s, width) == IF Len(s) >= width THEN s ELSE ZFill(<<0>> \o s, width)

fips_strings(fips) == [i \in 1..Len(fips) |-> ZFill(Str(fips[i]), 5)]

\* pd.DataFrame({"fips": ..., "value": ...}): one row per position, labelled
\* by its position (the DataFrame's index).
DataFrame(fips, values) ==
    [i \in 1..Len(values) |-> [index |-> i, fips |-> fips[i], value |-> values[i]]]

\* df.dropna(): the rows with a NaN are dropped; an infinity is not missing.
NotNa(row) == ~IsNaN(row.value)
dropna(df) == SelectSeq(df, NotNa)

\* df[df["value"] > 0]
IsPositive(row) == FGt(row.value, F(0))

\* KeepPositive with the surviving rows in reverse order.
KeepPositiveReversed(df) ==
    LET kept == SelectSeq(df, IsPositive)
    IN  [i \in 1..Len(kept) |-> kept[Len(kept) + 1 - i]]

KeepPositive(df) == SelectSeq(df, IsPositive)

Column(df) == [i \in 1..Len(df) |-> df[i].value]

\* Ascending sort of floats holding no NaN.
RECURSIVE Insert(_, _)
Insert(s, x) ==
    IF s = <<>> THEN <<x>>
    ELSE IF FLe(x, Head(s)) THEN <<x>> \o s
    ELSE <<Head(s)>> \o Insert(Tail(s), x)

RECURSIVE Sorted(_)
Sorted(s) == IF s = <<>> THEN <<>> ELSE Insert(Sorted(Tail(s)), Head(s))

\* NumPy's linear interpolation between the two bracketing elements, weight
\* t / 100.  "lerp" is _lerp of NumPy 1.22 and later: a + (b - a) * t, and
\* b - (b - a) * (1 - t) where t >= 0.5; "weights" is the earlier
\* a * (1 - t) + b * t.  On finite values the two agree.
NumpyImpls == {"lerp", "weights"}

Lerp(a, b, t, impl) ==
    IF impl = "lerp"
    THEN LET diff_b_a == FSub(b, a)
         IN  IF t >= 50 THEN FSub(b, FScale(diff_b_a, 100 - t))
             ELSE FAdd(a, FScale(diff_b_a, t))
    ELSE FAdd(FScale(a, 100 - t), FScale(b, t))

\* np.percentile(values, p) of a non-empty array without NaN, default method
\* "linear": virtual index p / 100 * (n - 1) into the sorted values.
Percentile(values, p, impl) ==
    LET s == Sorted(values)
        n == Len(s)
        virtual == p * (n - 1)
        previous == virtual \div 100
        gamma == virtual % 100
    IN  IF previous >= n - 1
        THEN Lerp(s[n], s[n], IF impl = "lerp" THEN 100 ELSE 0, impl)
        ELSE Lerp(s[previous + 1], s[previous + 2], gamma, impl)

LowImpact == "Low Impact"
MediumImpact == "Medium Impact"
HighImpact == "High Impact"

categorize_value(val, low_percentile, high_percentile) ==
    IF FLe(val, low_percentile) THEN LowImpact
    ELSE IF FLe(val, high_percentile) THEN MediumImpact
    ELSE HighImpact

Categorized(df, low_percentile, high_percentile) ==
    [i \in 1..Len(df) |->
        [index |-> df[i].index, fips |-> df[i].fips, value |-> df[i].value,
         category |-> categorize_value(df[i].value, low_percentile, high_percentile)]]

\* How a call of create_environmental_map ends: status is "rendered" when
\* st.plotly_chart was reached, else the exception that left the function.
MapOutcome(status, df, low_percentile, high_percentile) ==
    [status |-> status, df |-> df,
     low_percentile |-> low_percentile, high_percentile |-> high_percentile]

\* The cleaned DataFrame, before the percentiles are taken.
Cleaned(data, metric_option) ==
    KeepPositive(dropna(DataFrame(fips_strings(data.CountyFIPS),
                                  metric_map(data, metric_option))))

\* create_environmental_map; the state argument is never read.  pd.DataFrame
\* raises ValueError on columns of different lengths, np.percentile raises
\* IndexError on an empty array.
create_environmental_map(data, metric_option, state, impl) ==
    IF Len(data.CountyFIPS) # Len(metric_map(data, metric_option))
    THEN MapOutcome("ValueError", <<>>, NaN, NaN)
    ELSE LET df == Cleaned(data, metric_option)
         IN  IF df = <<>>
             THEN MapOutcome("IndexError", <<>>, NaN, NaN)
             ELSE LET low_percentile == Percentile(Column(df), 33, impl)
                      high_percentile == Percentile(Column(df), 66, impl)
                  IN  MapOutcome("rendered",
                                 Categorized(df, low_percentile, high_percentile),
                                 low_percentile, high_percentile)

\* ---------------------------------------------------------- data loading
ArrayNames == {"AWAREUSCF", "EFkgkWh", "EWIF", "CountyFIPS"}

\* The data file: whether it is on disk, the arrays it holds (keys) and each
\* array as a matrix, a sequence of rows.
AbsentFile == [exists |-> FALSE, keys |-> {}, matrix |-> [a \in ArrayNames |-> <<>>]]

\* ndarray.flatten(): the rows one after another.
RECURSIVE flatten(_)
flatten(m) == IF m = <<>> THEN <<>> ELSE Head(m) \o flatten(Tail(m))

NoData == [loaded |-> FALSE, data |-> [a \in ArrayNames |-> <<>>]]

FileNotFoundMessage == "Data file 'CountyLevelMetrics.mat' not found."
ErrorLoadingMessage == "Error loading data"

\* The body of load_data: the dict of the four flattened arrays, or the
\* st.error message before st.stop().  A missing array is a KeyError, caught
\* by "except Exception"; the lengths of the arrays are not compared.
load_data(f) ==
    IF ~f.exists
    THEN [ok |-> FALSE, error |-> FileNotFoundMessage, data |-> NoData.data]
    ELSE IF ~(ArrayNames \subseteq f.keys)
    THEN [ok |-> FALSE, error |-> ErrorLoadingMessage, data |-> NoData.data]
    ELSE [ok |-> TRUE, error |-> NoError,
          data |-> [a \in ArrayNames |-> flatten(f.matrix[a])]]

\* @st.cache_data: a returned dict is kept and returned again; a call ended
\* by st.stop() caches nothing.
CachedLoad(f, c) ==
    IF c.loaded THEN [ok |-> TRUE, error |-> NoError, data |-> c.data]
    ELSE load_data(f)

\* ------------------------------------------------------------------ main
States == {"USA", "Alabama"}

\* The text inputs of the page.
InputTexts == {<<>>, <<" ">>, <<"a">>, <<"-", "3">>, <<"3">>, <<"n", "a", "n">>}

\* The widgets' values when a session starts: the first option of each
\* selectbox, empty text inputs.
DefaultWidgets ==
    [state |-> "USA", metric_option |-> "carbon footprint",
     power_value |-> <<>>, power_unit |-> "kWh/yr",
     water_value |-> <<>>, water_unit |-> "L/yr"]

\* A local variable that was never assigned.
Unbound == [k |-> "unbound", h |-> 0]

NoMap == MapOutcome("not called", <<>>, NaN, NaN)
NoImpact ==
    [called |-> FALSE, power_value |-> Unbound, water_value |-> Unbound,
     power_kwh_per_year |-> Zero, water_liters_per_year |-> Zero]

calculate_facility_impact(power_value, power_unit, water_value, water_unit) ==
    [called |-> TRUE, power_value |-> power_value, water_value |-> water_value,
     power_kwh_per_year |-> convert_power_to_kwh_per_year(power_value, power_unit),
     water_liters_per_year |-> convert_water_to_liters_per_year(water_value, water_unit)]

Provided(text) == Strip(text) # <<>>

\* "Power consumption must be ...": the st.error of one field.
FieldError(field, msg) == [field |-> field, msg |-> msg]
ErrorsOf(field, r) == IF r.error = NoError THEN <<>> ELSE <<FieldError(field, r.error)>>

\* if power_valid and water_valid:
InputsValid(power_valid, water_valid) == power_valid /\ water_valid

\* BothProvided with "or" for "and": one provided field is enough.
EitherProvided(power_value, water_value) == Provided(power_value) \/ Provided(water_value)

\* if power_value.strip() and water_value.strip():
BothProvided(power_value, water_value) == Provided(power_value) /\ Provided(water_value)

Screen(view, errors, map, impact) ==
    [view |-> view, errors |-> errors, map |-> map, impact |-> impact]

\* The "if make_plot:" branch of main.
MakePlotBranch(data, w, impl) ==
    LET pr == validate_numeric_input(w.power_value)
        wr == validate_numeric_input(w.water_value)
        power_valid == IF Provided(w.power_value) THEN pr.is_valid ELSE TRUE
        power_numeric == IF Provided(w.power_value) THEN pr.numeric_value ELSE Unbound
        water_valid == IF Provided(w.water_value) THEN wr.is_valid ELSE TRUE
        water_numeric == IF Provided(w.water_value) THEN wr.numeric_value ELSE Unbound
        errors == (IF Provided(w.power_value) THEN ErrorsOf("Power consumption", pr) ELSE <<>>)
                  \o (IF Provided(w.water_value) THEN ErrorsOf("Water consumption", wr) ELSE <<>>)
        map == create_environmental_map(data, w.metric_option, w.state, impl)
    IN  IF ~InputsValid(power_valid, water_valid)
        THEN Screen("plot", errors, NoMap, NoImpact)
        ELSE IF map.status # "rendered"
        THEN Screen("exception", errors, map, NoImpact)
        ELSE IF BothProvided(w.power_value, w.water_value)
        THEN Screen("plot", errors, map,
                    calculate_facility_impact(power_numeric, w.power_unit,
                                              water_numeric, w.water_unit))
        ELSE Screen("plot", errors, map, NoImpact)

LoadErrorScreen(error) ==
    Screen("load_error", <<FieldError("load_data", error)>>, NoMap, NoImpact)

\* ---------------------------------------------------------- trivial state
NoCall == [fn |-> "none"]
NoRet == [fn |-> "none"]
NoScreen == Screen("none", <<>>, NoMap, NoImpact)

AppIdle ==
    /\ file = AbsentFile
    /\ cache = NoData
    /\ widgets = DefaultWidgets
    /\ screen = NoScreen

\* ------------------------------------------- specification: validation
InitValidate ==
    /\ AppIdle
    /\ call \in {[fn |-> "validate_numeric_input", value |-> t] : t \in Texts}
    /\ ret = NoRet

Validate ==
    /\ call.fn = "validate_numeric_input"
    /\ ret = NoRet
    /\ ret' = [fn |-> call.fn, out |-> validate_numeric_input(call.value)]
    /\ UNCHANGED <<file, cache, widgets, screen, call>>

SpecValidate == InitValidate /\ [][Validate]_vars

\* ------------------------------------------- specification: conversion
ConsumptionValues == {F(n) : n \in 0..MaxValue} \cup {NaN}

InitConvert ==
    /\ AppIdle
    /\ call \in {[fn |-> f, value |-> v, unit |-> u] :
                    f \in {"convert_power_to_kwh_per_year",
                           "convert_water_to_liters_per_year"},
                    v \in ConsumptionValues,
                    u \in PowerUnits \cup WaterUnits \cup OtherUnits}
    /\ ret = NoRet

ConvertPower ==
    /\ call.fn = "convert_power_to_kwh_per_year"
    /\ ret = NoRet
    /\ ret' = [fn |-> call.fn,
               out |-> convert_power_to_kwh_per_year(call.value, call.unit)]
    /\ UNCHANGED <<file, cache, widgets, screen, call>>

ConvertWater ==
    /\ call.fn = "convert_water_to_liters_per_year"
    /\ ret = NoRet
    /\ ret' = [fn |-> call.fn,
               out |-> convert_water_to_liters_per_year(call.value, call.unit)]
    /\ UNCHANGED <<file, cache, widgets, screen, call>>

SpecConvert == InitConvert /\ [][ConvertPower \/ ConvertWater]_vars

\* -------------------------------------------- specification: the session
\* County codes of two states, interleaved: 01001, 06001, 01003, 06003, ...
FipsCode(i) == IF i % 2 = 1 THEN 1000 + i ELSE 6000 + i - 1

\* The arrays of the data file, as single-column matrices of the given
\* numbers of rows.
Matrix(name, rows) ==
    [i \in 1..rows |->
        IF name = "EFkgkWh" THEN <<F(3 * i)>>
        ELSE IF name = "EWIF" THEN <<IF i = 1 THEN NaN ELSE F(0)>>
        ELSE IF name = "AWAREUSCF" THEN <<IF i = 1 THEN Inf ELSE F(i)>>
        ELSE <<FipsCode(i)>>]

\* Every array MaxRows rows long, but for the arrays of short, one row less.
RowCounts == {[a \in ArrayNames |-> IF a \in short THEN MaxRows - 1 ELSE MaxRows] :
                 short \in {{}} \cup {{a} : a \in ArrayNames}}

Files ==
    {AbsentFile}
    \cup {[exists |-> TRUE, keys |-> ArrayNames \ {a},
           matrix |-> [b \in ArrayNames |-> IF b = a THEN <<>> ELSE Matrix(b, MaxRows)]] :
             a \in ArrayNames}
    \cup {[exists |-> TRUE, keys |-> ArrayNames,
           matrix |-> [a \in ArrayNames |-> Matrix(a, rc[a])]] : rc \in RowCounts}

Init ==
    /\ file \in Files
    /\ cache = NoData
    /\ widgets = DefaultWidgets
    /\ screen = NoScreen
    /\ call = NoCall
    /\ ret = NoRet

WidgetValues(field) ==
    CASE field = "state" -> States
      [] field = "metric_option" -> Metrics
      [] field = "power_value" -> InputTexts
      [] field = "power_unit" -> PowerUnits
      [] field = "water_value" -> InputTexts
      [] field = "water_unit" -> WaterUnits

\* One run of the script: load_data first (st.stop() after its error ends the
\* run), then the page when the data is there.  The cache and the screen the
\* run leaves behind.
ScriptRun(page) ==
    LET l == CachedLoad(file, cache)
    IN  [cache |-> IF l.ok THEN [loaded |-> TRUE, data |-> l.data] ELSE cache,
         screen |-> IF l.ok THEN page ELSE LoadErrorScreen(l.error)]

\* The user changes one widget: the script reruns with no button pressed.
ChangeWidget ==
    \E field \in DOMAIN widgets :
        \E v \in WidgetValues(field) \ {widgets[field]} :
            /\ widgets' = [widgets EXCEPT ![field] = v]
            /\ cache' = ScriptRun(Screen("welcome", <<>>, NoMap, NoImpact)).cache
            /\ screen' = ScriptRun(Screen("welcome", <<>>, NoMap, NoImpact)).screen
            /\ UNCHANGED <<file, call, ret>>

ClickAbout ==
    /\ cache' = ScriptRun(Screen("about", <<>>, NoMap, NoImpact)).cache
    /\ screen' = ScriptRun(Screen("about", <<>>, NoMap, NoImpact)).screen
    /\ UNCHANGED <<file, widgets, call, ret>>

\* st.stop() in the Exit branch ends the run before the main content area.
ClickExit ==
    /\ cache' = ScriptRun(Screen("exit", <<>>, NoMap, NoImpact)).cache
    /\ screen' = ScriptRun(Screen("exit", <<>>, NoMap, NoImpact)).screen
    /\ UNCHANGED <<file, widgets, call, ret>>

ClickMakePlot ==
    \E impl \in NumpyImpls :
        LET run == ScriptRun(MakePlotBranch(CachedLoad(file, cache).data, widgets, impl))
        IN  /\ cache' = run.cache
            /\ screen' = run.screen
            /\ UNCHANGED <<file, widgets, call, ret>>

Next == ChangeWidget \/ ClickAbout \/ ClickExit \/ ClickMakePlot

Spec == Init /\ [][Next]_vars

\* ---------------------------------------- specification: classification
ValueDomain == {NaN, Inf, F(-5), F(0), F(3), F(7)}
ExampleArrays == {<<F(1), F(1), F(1), F(1), F(100)>>,
                  <<F(0), F(-5), F(3), F(7), NaN>>}
MetricArrays == SeqsUpTo(ValueDomain, MaxN) \cup ExampleArrays

\* A dataset whose array for metric m is vals; the other two arrays hold
\* 1, 2, 3, ...
Dataset(vals, m) ==
    LET other == [i \in 1..Len(vals) |-> F(i)]
    IN  [EFkgkWh |-> IF m = "carbon footprint" THEN vals ELSE other,
         EWIF |-> IF m = "scope 1 & 2 water footprint" THEN vals ELSE other,
         AWAREUSCF |-> IF m = "water scarcity footprint" THEN vals ELSE other,
         CountyFIPS |-> [i \in 1..Len(vals) |-> FipsCode(i)]]

ClassifyStates == {"USA", "Alabama"}

InitClassify ==
    /\ AppIdle
    /\ call \in {[fn |-> "create_environmental_map", data |-> Dataset(v, m),
                  metric_option |-> m, state |-> st] :
                    v \in MetricArrays, m \in Metrics, st \in ClassifyStates}
    /\ ret = NoRet

Classify ==
    /\ call.fn = "create_environmental_map"
    /\ ret = NoRet
    /\ \E impl \in NumpyImpls :
          ret' = [fn |-> call.fn,
                  out |-> create_environmental_map(call.data, call.metric_option,
                                                   call.state, impl)]
    /\ UNCHANGED <<file, cache, widgets, screen, call>>

SpecClassify == InitClassify /\ [][Classify]_vars

\* ------------------------------------------------------ classification claims
Classified == call.fn = "create_environmental_map" /\ ret # NoRet
Rendered == Classified /\ ret.out.status = "rendered"
InputValues == metric_map(call.data, call.metric_option)
RowIndexes(df) == {df[j].index : j \in 1..Len(df)}

\* The percentile as the specification words it: index p / 100 * (n - 1) into
\* the sorted values, linearly interpolated between the bracketing elements.
InterpolatedPercentile(values, p) ==
    LET s == Sorted(values)
        k == (p * (Len(s) - 1)) \div 100
        r == (p * (Len(s) - 1)) % 100
    IN  IF r = 0 THEN s[k + 1]
        ELSE IF IsFinite(s[k + 1]) /\ IsFinite(s[k + 2])
        THEN [k |-> "num", h |-> s[k + 1].h + ((s[k + 2].h - s[k + 1].h) * r) \div 100]
        ELSE Inf

BucketRule(row, lowCut, highCut) ==
    /\ row.category \in {LowImpact, MediumImpact, HighImpact}
    /\ row.category = LowImpact <=> FLe(row.value, lowCut)
    /\ row.category = MediumImpact <=> (FLt(lowCut, row.value) /\ FLe(row.value, highCut))
    /\ row.category = HighImpact <=> FGt(row.value, highCut)

\* C1: whenever the cleaned values are non-empty, the cutoffs are the 33rd and
\* 66th linear-interpolation percentiles of the cleaned values and every
\* retained record has exactly the bucket of the rule: Low if value <= lowCut,
\* Medium if lowCut < value <= highCut, High if value > highCut.
C1_PercentileBuckets ==
    (Classified /\ Cleaned(call.data, call.metric_option) # <<>>) =>
        LET out == ret.out
            cleaned == Column(Cleaned(call.data, call.metric_option))
        IN  /\ out.status = "rendered"
            /\ out.low_percentile = InterpolatedPercentile(cleaned, 33)
            /\ out.high_percentile = InterpolatedPercentile(cleaned, 66)
            /\ \A j \in 1..Len(out.df) :
                  BucketRule(out.df[j], out.low_percentile, out.high_percentile)

\* The state a county belongs to, by the first two digits of its identifier.
StatePrefix(state) == IF state = "Alabama" THEN <<0, 1>> ELSE <<0, 6>>
CountyInState(fips, state) == state = "USA" \/ SubSeq(fips, 1, 2) = StatePrefix(state)

\* C2: the records of the result are exactly the cleaned counties of the
\* selected state (all cleaned counties when the whole country is selected),
\* and the cutoffs are the percentiles of those counties' values.
C2_StateFilter ==
    Rendered =>
        LET selected == SelectSeq(Cleaned(call.data, call.metric_option),
                                  LAMBDA row : CountyInState(row.fips, call.state))
        IN  /\ RowIndexes(ret.out.df) = RowIndexes(selected)
            /\ \A j \in 1..Len(ret.out.df) : CountyInState(ret.out.df[j].fips, call.state)

\* C3: the pairs that reach the percentiles and the buckets are exactly the
\* pairs whose value is finite and > 0.
C3_OnlyFinitePositiveKept ==
    Rendered =>
        /\ \A j \in 1..Len(ret.out.df) :
              IsFinite(ret.out.df[j].value) /\ FGt(ret.out.df[j].value, F(0))
        /\ RowIndexes(ret.out.df) =
              {i \in 1..Len(InputValues) :
                  IsFinite(InputValues[i]) /\ FGt(InputValues[i], F(0))}

\* C4: when no county remains after cleaning, the call ends with an empty
\* sequence and the EmptyResult signal.
C4_EmptyResultSignalled ==
    (Classified /\ Cleaned(call.data, call.metric_option) = <<>>) =>
        ret.out.status = "EmptyResult" /\ ret.out.df = <<>>

\* C7: every record of the result carries the county identifier and the metric
\* value of one input position, and the records are in the order of their
\* input positions.
C7_OrderAndPairingPreserved ==
    Rendered =>
        LET df == ret.out.df
        IN  /\ \A j \in 1..Len(df) :
                  /\ df[j].index \in 1..Len(InputValues)
                  /\ df[j].value = InputValues[df[j].index]
                  /\ df[j].fips = ZFill(Str(call.data.CountyFIPS[df[j].index]), 5)
            /\ \A j \in 1..Len(df), k \in 1..Len(df) :
                  j < k => df[j].index < df[k].index

\* A result with a dropped county between two retained ones whose values are
\* in descending order.
C7_Witness ==
    /\ Rendered
    /\ Len(ret.out.df) >= 2
    /\ ret.out.df[1].index + 1 < ret.out.df[2].index
    /\ FGt(ret.out.df[1].value, ret.out.df[2].value)

\* C9: the cutoffs satisfy lowCut <= highCut, and with a single retained value
\* both equal that value and the record is Low.
C9_CutoffsOrdered ==
    Rendered =>
        /\ FLe(ret.out.low_percentile, ret.out.high_percentile)
        /\ Len(ret.out.df) = 1 =>
              /\ FEq(ret.out.low_percentile, ret.out.df[1].value)
              /\ FEq(ret.out.high_percentile, ret.out.df[1].value)
              /\ ret.out.df[1].category = LowImpact

\* The claims C1, C3 and C9 on the inputs that hold no infinity.
NoInfinity == \A i \in 1..Len(InputValues) : InputValues[i] # Inf
FiniteInputsOnly_C1 == NoInfinity => C1_PercentileBuckets
FiniteInputsOnly_C3 == NoInfinity => C3_OnlyFinitePositiveKept
FiniteInputsOnly_C9 == NoInfinity => C9_CutoffsOrdered

\* [1, 1, 1, 1, 100]: the four 1's are Low and 100 is High.
ExampleOutlier ==
    (Rendered /\ InputValues = <<F(1), F(1), F(1), F(1), F(100)>>) =>
        /\ Len(ret.out.df) = 5
        /\ \A j \in 1..4 : ret.out.df[j].category = LowImpact
        /\ ret.out.df[5].category = HighImpact

\* [0, -5, 3, 7, NaN] reduces to [3, 7].
ExampleCleaning ==
    (Rendered /\ InputValues = <<F(0), F(-5), F(3), F(7), NaN>>) =>
        Column(ret.out.df) = <<F(3), F(7)>>

\* ---------------------------------------------------- conversion claims
Converted == ret # NoRet /\ call.fn \in {"convert_power_to_kwh_per_year",
                                         "convert_water_to_liters_per_year"}
UnitTable(fn) == IF fn = "convert_power_to_kwh_per_year" THEN PowerUnits ELSE WaterUnits

\* C5: a conversion called with a unit tag outside its unit table fails with
\* UnknownUnit; it returns no number.
C5_UnknownUnitRejected ==
    (Converted /\ call.unit \notin UnitTable(call.fn)) =>
        ret.out.raised = "UnknownUnit"

\* ---------------------------------------------------- validation claims
Validated == ret # NoRet /\ call.fn = "validate_numeric_input"

\* The text denotes a number >= 0.
DenotesNonNegative(text) ==
    ParseFloat(text).ok /\ FLe(F(0), ParseFloat(text).val)

\* C6: empty or whitespace-only text is "not provided" with no error; text
\* that is no number fails with "not a number"; a negative number fails with
\* "must be non-negative"; a number >= 0 succeeds with its value; and no text
\* that does not denote a number >= 0 is accepted.
C6_FourOutcomes ==
    Validated =>
        LET text == call.value
            out == ret.out
        IN  /\ Strip(text) = <<>> => (~out.is_valid /\ out.error = NoError)
            /\ (Strip(text) # <<>> /\ ~ParseFloat(text).ok) =>
                  (~out.is_valid /\ out.error = MustBeValid)
            /\ (ParseFloat(text).ok /\ FLt(ParseFloat(text).val, F(0))) =>
                  (~out.is_valid /\ out.error = MustBePositive)
            /\ DenotesNonNegative(text) =>
                  (out.is_valid /\ out.numeric_value = ParseFloat(text).val
                   /\ out.error = NoError)
            /\ out.is_valid => DenotesNonNegative(text)

\* Every text but the ones that parse to NaN is treated as C6 says.
AllButNaN_C6 ==
    (Validated /\ ~(ParseFloat(call.value).ok /\ IsNaN(ParseFloat(call.value).val))) =>
        C6_FourOutcomes

\* ------------------------------------------------------- session claims
SharedLength(d) == \A a \in ArrayNames, b \in ArrayNames : Len(d[a]) = Len(d[b])

WellFormed(f) ==
    /\ f.exists
    /\ ArrayNames \subseteq f.keys
    /\ \A a \in ArrayNames, b \in ArrayNames :
          Len(flatten(f.matrix[a])) = Len(flatten(f.matrix[b]))

HasRun == screen.view # "none"

\* C8: an absent file ends every run with the file-not-found error, a file
\* with an array missing or with arrays of different lengths ends it with the
\* schema error, and in both cases nothing is loaded and no classification
\* runs; a loaded dataset has four arrays of one length.
C8_LoadRejectsBadFiles ==
    /\ (HasRun /\ ~file.exists) => screen = LoadErrorScreen(FileNotFoundMessage)
    /\ (HasRun /\ file.exists /\ ~WellFormed(file)) =>
          screen = LoadErrorScreen(ErrorLoadingMessage)
    /\ ~WellFormed(file) => (~cache.loaded /\ screen.map = NoMap)
    /\ cache.loaded => SharedLength(cache.data)

\* Absent files and files with an array missing are rejected as C8 says.
MissingRejected_C8 ==
    (HasRun /\ ~(file.exists /\ ArrayNames \subseteq file.keys)) =>
        /\ screen.view = "load_error"
        /\ ~cache.loaded
        /\ screen.map = NoMap

MakePlotRan == screen.view \in {"plot", "exception"}
Fails(text) == Provided(text) /\ ~validate_numeric_input(text).is_valid
ErrorFields == {screen.errors[i].field : i \in 1..Len(screen.errors)}

\* C10: after a "Make Plot" run, (a) a provided field that fails validation
\* leaves both the map and the facility section out; (b) a field left empty or
\* whitespace-only reports no error and, unless the other field fails,
\* create_environmental_map is called; (c) the facility conversion runs only on the values that
\* validation accepted for the two fields of this run.
C10_MakePlotValidation ==
    MakePlotRan =>
        LET p == widgets.power_value
            w == widgets.water_value
        IN  /\ (Fails(p) \/ Fails(w)) =>
                  (screen.map = NoMap /\ ~screen.impact.called)
            /\ ~Provided(p) => "Power consumption" \notin ErrorFields
            /\ ~Provided(w) => "Water consumption" \notin ErrorFields
            /\ (~Provided(p) /\ ~Fails(w)) => screen.map # NoMap
            /\ (~Provided(w) /\ ~Fails(p)) => screen.map # NoMap
            /\ screen.impact.called =>
                  /\ Provided(p) /\ Provided(w)
                  /\ validate_numeric_input(p).is_valid
                  /\ validate_numeric_input(w).is_valid
                  /\ screen.impact.power_value = validate_numeric_input(p).numeric_value
                  /\ screen.impact.water_value = validate_numeric_input(w).numeric_value

\* A "Make Plot" run with a whitespace-only power field and a water field
\* that is not a number: one error, no map, no facility section.
C10_Witness ==
    /\ MakePlotRan
    /\ widgets.power_value = <<" ">>
    /\ widgets.water_value = <<"a">>
    /\ screen.errors = <<FieldError("Water consumption", MustBeValid)>>
    /\ screen.map = NoMap
    /\ ~screen.impact.called

\* A "Make Plot" run that reached the facility section.
FacilityShown == MakePlotRan /\ screen.impact.called

====
